---- MODULE Spec2Model ----
(***************************************************************************)
(* A model of sendupdates.py: the scheduled job that scrapes one table per *)
(* court, compares it with the snapshot kept on disk in two directories    *)
(* (artifact_data and permanent_data), rewrites the snapshot and mails the *)
(* new rows.                                                                *)
(***************************************************************************)
EXTENDS Integers, Sequences, FiniteSets, TLC

\* ------------------------------------------------------------------ bounds

\* Longest table a fetch returns.
MaxRows == 2

\* How many to_csv calls may fail over a behaviour.
MaxFaults == 1

\* How many runs a behaviour that records what was reported goes through.
MaxRuns == 2

\* ------------------------------------------------------- configuration

\* The monitored courts, in the order the dict is iterated.
URLS == <<"Court of Justice", "General Court">>

Courts == {URLS[i] : i \in 1..Len(URLS)}

\* The recipient list, already split on commas.
EMAIL_RECEIVERS == <<"r1", "r2">>

\* The column names every scrape uses.
headers == <<"id", "description">>

\* ------------------------------------------------------------ values

\* A cell of the id column is a string; it is kept as its characters so that
\* the type inference of the CSV reader can be computed on it.
Digits == {"0", "1", "2", "3", "4", "5", "6", "7", "8", "9"}

\* The scraped rows the model draws from, as the text of their two cells: an
\* id of digits with a leading zero, and an id that is no number, the latter
\* with two descriptions.
Rows ==
    { << <<"0", "7">>, "a" >>, << <<"C", "1">>, "a" >>, << <<"C", "1">>, "b" >> }

\* The row lists of a scrape: a listing shows each of its rows once.
RowLists ==
    {s \in UNION {[1..n -> Rows] : n \in 0..MaxRows} :
        \A i, j \in 1..Len(s) : i # j => s[i] # s[j]}

\* pd.DataFrame(): no columns, no rows.
EmptyFrame == [columns |-> <<>>, rows |-> <<>>]

DataFrame(cols, rws) == [columns |-> cols, rows |-> rws]

\* DataFrame.empty: some axis has length 0.
empty(df) == Len(df.columns) = 0 \/ Len(df.rows) = 0

\* What get_current_data can return: the empty frame (request failed, no
\* table, malformed rows) or the scraped rows under the fixed headers.
get_current_data == {EmptyFrame} \cup {DataFrame(headers, r) : r \in RowLists}

\* ------------------------------------------------------------- files

NoFile == [kind |-> "absent", columns |-> <<>>, rows |-> <<>>]

\* A file pandas cannot parse (truncated, empty, binary).
CorruptFile == [kind |-> "corrupt", columns |-> <<>>, rows |-> <<>>]

\* A snapshot left by an earlier generation of the script: no "id" column.
LegacyFile ==
    [kind |-> "csv", columns |-> <<"case_number", "description", "date">>,
     rows |-> << << <<"C", "1">>, "a", "d" >> >>]

\* DataFrame.to_csv(path, index=False): header line, then the cells as text.
to_csv(df) == [kind |-> "csv", columns |-> df.columns, rows |-> df.rows]

exists(f) == f.kind # "absent"

\* How one to_csv call ends: written, or an OSError that leaves the old
\* content ("keep": the file could not be opened) or a truncated file
\* ("trunc": the write stopped part-way).
WriteOutcomes == {"ok", "keep", "trunc"}

\* Write as it would be with the file opened for appending: rows are added to
\* a file that already has the same columns.
WriteAppend(f, df, w) ==
    IF w = "ok"
    THEN IF f.kind = "csv" /\ f.columns = df.columns
         THEN [kind |-> "csv", columns |-> f.columns, rows |-> f.rows \o df.rows]
         ELSE to_csv(df)
    ELSE IF w = "keep" THEN f ELSE CorruptFile

Write(f, df, w) ==
    IF w = "ok" THEN to_csv(df) ELSE IF w = "keep" THEN f ELSE CorruptFile


\* --------------------------------------------------- reading a snapshot

\* pd.read_csv raises on a file it cannot parse.
read_csv_raises(f) == f.kind # "csv"

\* The cells of one column of a parsed file, as written.
Column(f, name) ==
    LET i == CHOOSE k \in 1..Len(f.columns) : f.columns[k] = name
    IN  [r \in 1..Len(f.rows) |-> f.rows[r][i]]

IsIntLiteral(s) == Len(s) > 0 /\ \A i \in 1..Len(s) : s[i] \in Digits

\* str(int(s)) for a digit string: the leading zeros are gone.
RECURSIVE IntToStr(_)
IntToStr(s) == IF Len(s) > 1 /\ s[1] = "0" THEN IntToStr(Tail(s)) ELSE s

\* read_csv infers the dtype of a column from all its cells: a column of
\* integer literals becomes int64, anything else stays text.  astype(str)
\* then renders the parsed values.
astype_str_after_read(cells) ==
    IF Len(cells) > 0 /\ \A i \in 1..Len(cells) : IsIntLiteral(cells[i])
    THEN [i \in 1..Len(cells) |-> IntToStr(cells[i])]
    ELSE cells

Range(s) == {s[i] : i \in 1..Len(s)}

\* ------------------------------------------------------------ the diff

\* current_data.columns[0]
id_column(current_data) == current_data.columns[1]

\* set(current_data[id_column].astype(str)): the scraped cells are text.
current_ids(current_data) == {current_data.rows[i][1] : i \in 1..Len(current_data.rows)}

\* set(previous_data[id_column].astype(str))
previous_ids(f, col) == Range(astype_str_after_read(Column(f, col)))

new_ids(current_data, f) ==
    current_ids(current_data) \ previous_ids(f, id_column(current_data))

\* current_data[current_data[id_column].astype(str).isin(new_ids)]
new_entries(current_data, ids) ==
    DataFrame(current_data.columns,
              SelectSeq(current_data.rows, LAMBDA r : r[1] \in ids))

\* ------------------------------------------------------------- state

VARIABLES
    artifact,           \* artifact_data/<court>_data.csv, per court
    permanent,          \* permanent_data/<court>_data.csv, per court
    pc,                 \* "idle", "loop", "send" or "crashed"
    court,              \* position of the for loop in URLS
    has_previous_data,  \* result of check_for_previous_data
    updates,            \* the dict handed to send_email
    fetched,            \* the table get_current_data returned for the court most recently, if it had rows
    branch,             \* the branch of the loop body taken for the court in this run
    art_modified,       \* some step of this run changed the content of the court's working file
    perm_modified,      \* some step of this run changed the content of the court's permanent file
    write_failed,       \* a to_csv call raised while the court was processed in this run
    faults,             \* to_csv calls that have failed so far
    mail,               \* how the last send_email call ended
    recording,          \* whether this behaviour records what its runs reported
    runs,               \* runs started, counted when recording
    reported            \* per court, the rows earlier runs put into updates, when recording

vars == <<artifact, permanent, pc, court, has_previous_data, updates,
          fetched, branch, art_modified, perm_modified, write_failed, faults, mail,
          recording, runs, reported>>

\* send_email has not been called in this run.
NotCalled ==
    [status |-> "none", error |-> "none", smtp |-> FALSE, attempted |-> 0, sent |-> 0]

\* A court the dict has no key for yet.
Unset == [kind |-> "unset"]

None == [kind |-> "None"]

NotFetched == [kind |-> "none"]

IsFrame(u) == u # Unset /\ u # None

InitFiles == {NoFile, LegacyFile, CorruptFile}

InitState ==
    /\ artifact \in [Courts -> InitFiles]
    /\ permanent \in [Courts -> InitFiles]
    /\ pc = "idle"
    /\ court = 1
    /\ has_previous_data = FALSE
    /\ updates = [c \in Courts |-> Unset]
    /\ fetched = [c \in Courts |-> NotFetched]
    /\ branch = [c \in Courts |-> "pending"]
    /\ art_modified = [c \in Courts |-> FALSE]
    /\ perm_modified = [c \in Courts |-> FALSE]
    /\ write_failed = [c \in Courts |-> FALSE]
    /\ faults = 0
    /\ mail = NotCalled
    /\ runs = 0
    /\ reported = [c \in Courts |-> {}]

Init == InitState /\ recording = FALSE

\* The same program, observed with a record of what every run reported.
InitLineage == InitState /\ recording = TRUE

\* The rows of a dict entry.
RowsOf(u) == IF IsFrame(u) THEN Range(u.rows) ELSE {}

\* The record of the rows reported so far, once a run is over.
Record ==
    /\ runs' = runs
    /\ reported' = IF recording
                   THEN [c \in Courts |-> reported[c] \cup RowsOf(updates[c])]
                   ELSE reported
    /\ UNCHANGED recording


\* ------------------------------------------- check_for_previous_data

has_permanent_data == \E c \in Courts : exists(permanent[c])

has_artifact_data == \E c \in Courts : exists(artifact[c])

\* The copy loop as it would be if it only filled in missing working files.
CopyPermanentIfAbsent ==
    [c \in Courts |-> IF has_permanent_data /\ exists(permanent[c])
                         /\ ~exists(artifact[c])
                      THEN permanent[c] ELSE artifact[c]]

\* The working files after the copy loop: every court with a permanent file
\* gets it copied over its working file.
CopyPermanent ==
    [c \in Courts |-> IF has_permanent_data /\ exists(permanent[c])
                      THEN permanent[c] ELSE artifact[c]]

\* The start of check_for_updates: updates = {} and check_for_previous_data.
check_for_previous_data ==
    /\ pc \in {"idle", "crashed"}
    /\ artifact' = CopyPermanent
    /\ has_previous_data' = (has_permanent_data \/ has_artifact_data)
    /\ updates' = [c \in Courts |-> Unset]
    /\ court' = 1
    /\ pc' = "loop"
    /\ branch' = [c \in Courts |-> "pending"]
    /\ art_modified' = [c \in Courts |-> CopyPermanent[c] # artifact[c]]
    /\ perm_modified' = [c \in Courts |-> FALSE]
    /\ write_failed' = [c \in Courts |-> FALSE]
    /\ fetched' = IF pc = "idle" THEN fetched ELSE [c \in Courts |-> NotFetched]
    /\ mail' = NotCalled
    /\ recording => runs < MaxRuns
    /\ runs' = IF recording THEN runs + 1 ELSE runs
    /\ UNCHANGED <<permanent, faults, recording, reported>>

\* ------------------------------------------------ the loop body

\* to_csv(data_file) then to_csv(permanent_file); the second is not reached
\* when the first raises.
TwoWrites(art, perm, df, w1, w2) ==
    IF w1 # "ok"
    THEN [artifact |-> Write(art, df, w1), permanent |-> perm, raised |-> TRUE]
    ELSE [artifact |-> Write(art, df, w1), permanent |-> Write(perm, df, w2),
          raised |-> w2 # "ok"]

\* The except block as it would be without the write to permanent storage.
ExceptHandlerWorkingOnly(art, perm, upd, df, h1, h2) ==
    [artifact |-> Write(art, df, h1), permanent |-> perm,
     updates |-> IF h1 # "ok" THEN upd ELSE df, crashed |-> h1 # "ok"]

\* The except block: both files are written again and the whole table is
\* reported; an error raised here is caught by nobody.
ExceptHandler(art, perm, upd, df, h1, h2) ==
    LET t == TwoWrites(art, perm, df, h1, h2)
    IN  [artifact |-> t.artifact, permanent |-> t.permanent,
         updates |-> IF t.raised THEN upd ELSE df, crashed |-> t.raised]

\* The id column is missing from the previous data: only the working file is
\* rewritten.
SchemaDriftBody(art, perm, upd, df, w1, h1, h2) ==
    IF w1 = "ok"
    THEN [artifact |-> Write(art, df, w1), permanent |-> perm,
          updates |-> df, crashed |-> FALSE]
    ELSE ExceptHandler(Write(art, df, w1), perm, upd, df, h1, h2)

\* updates[court_name] is assigned first, then both files are written.
DiffBody(art, perm, upd, df, w1, w2, h1, h2) ==
    LET t == TwoWrites(art, perm, df, w1, w2)
    IN  IF ~t.raised
        THEN [artifact |-> t.artifact, permanent |-> t.permanent,
              updates |-> upd, crashed |-> FALSE]
        ELSE ExceptHandler(t.artifact, t.permanent, upd, df, h1, h2)

\* FirstRunBody as it would be without the write to permanent storage.
FirstRunBodyWorkingOnly(art, perm, upd, df, w1, w2) ==
    [artifact |-> Write(art, df, w1), permanent |-> perm,
     updates |-> IF w1 # "ok" THEN upd ELSE df, crashed |-> w1 # "ok"]

\* The else branch: no try around the two writes.
FirstRunBody(art, perm, upd, df, w1, w2) ==
    LET t == TwoWrites(art, perm, df, w1, w2)
    IN  [artifact |-> t.artifact, permanent |-> t.permanent,
         updates |-> IF t.raised THEN upd ELSE df, crashed |-> t.raised]

\* Outcomes of the to_csv calls an iteration does not reach are fixed to
\* "ok", so that each course of an iteration is enumerated once.
Reached(w1, w2, h1, h2) ==
    /\ w1 # "ok" => w2 = "ok"
    /\ h1 # "ok" => h2 = "ok"
    /\ (w1 = "ok" /\ w2 = "ok") => (h1 = "ok" /\ h2 = "ok")

Failures(ws) == Cardinality({i \in 1..Len(ws) : ws[i] # "ok"})

\* The courses of the four to_csv calls of an iteration: two in the branch,
\* two in the except block.
Plans ==
    {p \in [1..4 -> WriteOutcomes] : Reached(p[1], p[2], p[3], p[4])}

\* The courses of two consecutive to_csv calls with no try around them.
WritePairs == {p \in [1..2 -> WriteOutcomes] : p[1] # "ok" => p[2] = "ok"}

NonEmptyFrames == {df \in get_current_data : ~empty(df)}

\* The court the for loop is at.
court_name == URLS[court]

\* HasPrevious as it would be if it asked for a data file of every court.
HasPreviousEveryCourt ==
    has_previous_data /\ \A c \in Courts : exists(artifact[c])

\* has_previous_data and os.path.exists(data_file)
HasPrevious == has_previous_data /\ exists(artifact[court_name])

\* What a per-court variable holds once an exception has left the loop: the
\* process has ended, and only the values of the iteration that raised are
\* kept.
OnlyThisCourt(v, idle) == [c \in Courts |-> IF c = court_name THEN v ELSE idle]

\* The end of an iteration: the files and the dict entry of the court are
\* set, and the loop goes on, ends, or is left by the exception.
EndIteration(df, r, br, nfail) ==
    /\ faults + nfail <= MaxFaults
    /\ artifact' = [artifact EXCEPT ![court_name] = r.artifact]
    /\ permanent' = [permanent EXCEPT ![court_name] = r.permanent]
    /\ faults' = faults + nfail
    /\ IF r.crashed
       THEN /\ pc' = "crashed"
            /\ updates' = OnlyThisCourt(r.updates, Unset)
            /\ fetched' = OnlyThisCourt(df, NotFetched)
            /\ branch' = OnlyThisCourt(br, "pending")
            /\ write_failed' = OnlyThisCourt(TRUE, FALSE)
            /\ art_modified' = OnlyThisCourt(FALSE, FALSE)
            /\ perm_modified' = OnlyThisCourt(FALSE, FALSE)
            /\ has_previous_data' = FALSE
            /\ court' = court
            /\ reported' = IF recording
                           THEN [c \in Courts |->
                                    reported[c] \cup RowsOf(updates[c])
                                    \cup (IF c = court_name THEN RowsOf(r.updates) ELSE {})]
                           ELSE reported
       ELSE /\ pc' = IF court = Len(URLS) THEN "send" ELSE "loop"
            /\ updates' = [updates EXCEPT ![court_name] = r.updates]
            /\ fetched' = [fetched EXCEPT
                              ![court_name] = IF empty(df) THEN NotFetched ELSE df]
            /\ branch' = [branch EXCEPT ![court_name] = br]
            /\ write_failed' = [write_failed EXCEPT ![court_name] = nfail > 0]
            /\ art_modified' = [art_modified EXCEPT
                                   ![court_name] = @ \/ r.artifact # artifact[court_name]]
            /\ perm_modified' = [perm_modified EXCEPT
                                    ![court_name] = @ \/ r.permanent # permanent[court_name]]
            /\ court' = IF court = Len(URLS) THEN court ELSE court + 1
            /\ UNCHANGED <<has_previous_data, reported>>
    /\ UNCHANGED <<mail, recording, runs>>

\* NoData as it would be if the empty frame were saved as the reference data.
NoDataSavesEmpty ==
    /\ pc = "loop"
    /\ \E df \in get_current_data :
        /\ empty(df)
        /\ EndIteration(df, [artifact |-> to_csv(df),
                             permanent |-> permanent[court_name],
                             updates |-> None, crashed |-> FALSE], "NoData", 0)

\* current_data.empty: the court is skipped.
NoData ==
    /\ pc = "loop"
    /\ \E df \in get_current_data :
        /\ empty(df)
        /\ EndIteration(df, [artifact |-> artifact[court_name],
                             permanent |-> permanent[court_name],
                             updates |-> None, crashed |-> FALSE], "NoData", 0)

\* No previous data file: every row is new.
FirstRun ==
    /\ pc = "loop"
    /\ ~HasPrevious
    /\ \E df \in NonEmptyFrames, p \in WritePairs :
        /\ EndIteration(df,
               FirstRunBody(artifact[court_name], permanent[court_name],
                            updates[court_name], df, p[1], p[2]),
               "FirstRun", Failures(p))

\* pd.read_csv raises: the except block takes over.
UnreadablePrevious ==
    /\ pc = "loop"
    /\ HasPrevious
    /\ read_csv_raises(artifact[court_name])
    /\ \E df \in NonEmptyFrames, p \in WritePairs :
        /\ EndIteration(df,
               ExceptHandler(artifact[court_name], permanent[court_name],
                             updates[court_name], df, p[1], p[2]),
               "Unreadable", Failures(p))

\* The previous data has no column named like the current id column.
SchemaDrift ==
    /\ pc = "loop"
    /\ HasPrevious
    /\ ~read_csv_raises(artifact[court_name])
    /\ \E df \in NonEmptyFrames :
        /\ id_column(df) \notin Range(artifact[court_name].columns)
        /\ \E p \in Plans :
            /\ p[2] = "ok"
            /\ EndIteration(df,
                   SchemaDriftBody(artifact[court_name], permanent[court_name],
                                   updates[court_name], df, p[1], p[3], p[4]),
                   "SchemaDrift", Failures(p))

\* Some current id is not among the previous ids.
NewEntries ==
    /\ pc = "loop"
    /\ HasPrevious
    /\ ~read_csv_raises(artifact[court_name])
    /\ \E df \in NonEmptyFrames :
        /\ id_column(df) \in Range(artifact[court_name].columns)
        /\ new_ids(df, artifact[court_name]) # {}
        /\ \E p \in Plans :
            EndIteration(df,
               DiffBody(artifact[court_name], permanent[court_name],
                        new_entries(df, new_ids(df, artifact[court_name])),
                        df, p[1], p[2], p[3], p[4]),
               "NewEntries", Failures(p))

\* Every current id is among the previous ids.
NoNewEntries ==
    /\ pc = "loop"
    /\ HasPrevious
    /\ ~read_csv_raises(artifact[court_name])
    /\ \E df \in NonEmptyFrames :
        /\ id_column(df) \in Range(artifact[court_name].columns)
        /\ new_ids(df, artifact[court_name]) = {}
        /\ \E p \in Plans :
            EndIteration(df,
               DiffBody(artifact[court_name], permanent[court_name],
                        DataFrame(df.columns, <<>>),
                        df, p[1], p[2], p[3], p[4]),
               "NoNewEntries", Failures(p))

\* ------------------------------------------------------- send_email

\* has_updates as it would be if every table counted, with rows or without.
has_updates_any_table == \E c \in Courts : IsFrame(updates[c])

has_updates == \E c \in Courts : IsFrame(updates[c]) /\ ~empty(updates[c])

\* What os.getenv gives for the sender and the password: the value, or
\* nothing ("") when the variable is not set.
Environments ==
    [EMAIL_SENDER : {"", "sender"}, EMAIL_PASSWORD : {"", "password"}]

\* The three checks at the head of the try block; str.split never returns
\* an empty list.
ConfigError(env) ==
    \/ env.EMAIL_SENDER = ""
    \/ env.EMAIL_PASSWORD = ""
    \/ Len(EMAIL_RECEIVERS) = 0

\* The calls made on the SMTP server, in order: connecting and logging in,
\* one send_message per recipient, quit.
SmtpCalls == 1 + Len(EMAIL_RECEIVERS) + 1

\* The early return: no message is built, no connection is opened.
Skipped ==
    [status |-> "skipped", error |-> "none", smtp |-> FALSE, attempted |-> 0, sent |-> 0]

\* The try block when the k-th SMTP call raises (k = 0: none does): the
\* exception ends the block and is only printed.  attempted counts the
\* recipients send_message was called for, sent those it returned for.
Delivery(env, k) ==
    IF ConfigError(env)
    THEN [status |-> "failed", error |-> "ValueError", smtp |-> FALSE,
          attempted |-> 0, sent |-> 0]
    ELSE IF k = 0
    THEN [status |-> "sent", error |-> "none", smtp |-> TRUE,
          attempted |-> Len(EMAIL_RECEIVERS), sent |-> Len(EMAIL_RECEIVERS)]
    ELSE [status |-> "failed", error |-> "SMTPException", smtp |-> TRUE,
          attempted |-> IF k - 1 < Len(EMAIL_RECEIVERS)
                        THEN k - 1 ELSE Len(EMAIL_RECEIVERS),
          sent |-> IF k = SmtpCalls THEN Len(EMAIL_RECEIVERS)
                   ELSE IF k < 2 THEN 0 ELSE k - 2]

\* The courses of the try block: no SMTP call is reached when a setting is
\* missing.
TryCourses ==
    {t \in Environments \X (0..SmtpCalls) : ConfigError(t[1]) => t[2] = 0}

\* The environment is read when the module is loaded and looked at for the
\* first time here.
send_email ==
    /\ pc = "send"
    /\ IF ~has_updates
       THEN mail' = Skipped
       ELSE \E t \in TryCourses : mail' = Delivery(t[1], t[2])
    /\ pc' = "idle"
    /\ court' = 1
    /\ has_previous_data' = FALSE
    /\ updates' = [c \in Courts |-> Unset]
    /\ branch' = [c \in Courts |-> "pending"]
    /\ art_modified' = [c \in Courts |-> FALSE]
    /\ perm_modified' = [c \in Courts |-> FALSE]
    /\ write_failed' = [c \in Courts |-> FALSE]
    /\ Record
    /\ UNCHANGED <<artifact, permanent, fetched, faults>>

Next ==
    \/ check_for_previous_data
    \/ NoData
    \/ FirstRun
    \/ UnreadablePrevious
    \/ SchemaDrift
    \/ NewEntries
    \/ NoNewEntries
    \/ send_email

Spec == Init /\ [][Next]_vars

SpecLineage == InitLineage /\ [][Next]_vars


\* ------------------------------------------------------------ claims

\* The snapshot the next run compares the court's table with: the permanent
\* file when there is one (the next run copies it over the working file),
\* otherwise the working file.
NextPrevious(c) == IF exists(permanent[c]) THEN permanent[c] ELSE artifact[c]

\* A later run fetching the row again would not compute it as new: the
\* snapshot it compares with is readable, has the id column, and the row's
\* id is among its ids.
Absorbed(c, row) ==
    /\ ~read_csv_raises(NextPrevious(c))
    /\ id_column(DataFrame(headers, <<>>)) \in Range(NextPrevious(c).columns)
    /\ row[1] \in previous_ids(NextPrevious(c), id_column(DataFrame(headers, <<>>)))

\* The step is an iteration of the loop for court c that fetched a table with
\* rows and in which no to_csv call raised.
CleanIteration(c) ==
    /\ pc = "loop"
    /\ court_name = c
    /\ branch'[c] \notin {"pending", "NoData"}
    /\ ~write_failed'[c]

\* s without its i-th element.
RemoveAt(s, i) == SubSeq(s, 1, i - 1) \o SubSeq(s, i + 1, Len(s))

\* C1: in a behaviour that starts with the record of reported rows empty, in
\* which nothing but the program touches the snapshot files and no write has
\* failed, no row that a run puts into updates[court] was put there by an
\* earlier run.
C1_NeverReportedTwice ==
    faults = 0 => \A c \in Courts : RowsOf(updates[c]) \cap reported[c] = {}

\* C2 as stated: in a run whose fetch for a court returned no data, the
\* court's dict entry is None and no step of the run has changed the content
\* of the court's working file or of its permanent file.
C2_NoDataLeavesBothTiers ==
    \A c \in Courts :
        branch[c] = "NoData" =>
            /\ updates[c] = None
            /\ ~art_modified[c]
            /\ ~perm_modified[c]

\* C2 as amended: in a run whose fetch for a court returned no data, the
\* court's dict entry is None, the permanent file is as it was before the
\* run, and the working file is as it was before the run unless the court
\* has a permanent file, in which case the working file is a copy of it.
C2_NoDataKeepsSnapshot ==
    \A c \in Courts :
        branch[c] = "NoData" =>
            /\ updates[c] = None
            /\ ~perm_modified[c]
            /\ exists(permanent[c]) => artifact[c] = permanent[c]
            /\ ~exists(permanent[c]) => ~art_modified[c]

\* A run has finished its loop with no data for a court whose working file
\* was replaced by its permanent snapshot at the start of the run.
C2_Witness ==
    /\ pc = "send"
    /\ \E c \in Courts :
        /\ branch[c] = "NoData"
        /\ art_modified[c]
        /\ permanent[c].kind = "csv"

\* C3: when send_email ends without having sent the message, in a behaviour
\* in which no write has failed, no row the run put into updates is absorbed
\* in the snapshot the next run compares with (so that the next run computes
\* it as new again).
C3_AtLeastOnce ==
    [][(pc = "send" /\ faults = 0 /\ mail'.status # "sent") =>
          \A c \in Courts : \A row \in RowsOf(updates[c]) : ~Absorbed(c, row)
      ]_vars

\* C4: when the previous run completed and fetched a table with rows for a
\* court, and this run fetches the same table, with no write having failed,
\* this run puts an empty frame into updates for the court.
C4_NoRenotification ==
    [][\A c \in Courts :
          (/\ CleanIteration(c)
           /\ faults' = 0
           /\ fetched[c] # NotFetched
           /\ fetched'[c] = fetched[c])
          => updates'[c] = DataFrame(fetched[c].columns, <<>>)
      ]_vars

\* C5: when the working file of a court holds table A, and the fetched table
\* is A with one row r inserted whose id is the id of no row of A, with no
\* write having failed, the run puts exactly the row r into updates for the
\* court.
C5_NewRowCompleteness ==
    [][\A c \in Courts :
          (CleanIteration(c) /\ faults' = 0) =>
              \A i \in 1..Len(fetched'[c].rows) :
                  (/\ HasPrevious
                   /\ artifact[c] = to_csv(DataFrame(fetched'[c].columns,
                                                     RemoveAt(fetched'[c].rows, i)))
                   /\ Len(fetched'[c].rows) > 1
                   /\ \A j \in 1..Len(fetched'[c].rows) :
                          j # i => fetched'[c].rows[j][1] # fetched'[c].rows[i][1])
                  => updates'[c] = DataFrame(fetched'[c].columns,
                                             <<fetched'[c].rows[i]>>)
      ]_vars


\* The court had no file in either directory when its iteration began.
NoSnapshot(c) == ~exists(artifact[c]) /\ ~exists(permanent[c])

\* After the step, the whole fetched table is in updates for the court and
\* both files of the court hold it.
AllNewAndSaved(c) ==
    /\ updates'[c] = fetched'[c]
    /\ artifact'[c] = to_csv(fetched'[c])
    /\ permanent'[c] = to_csv(fetched'[c])

Drifted(c) ==
    /\ HasPrevious
    /\ ~read_csv_raises(artifact[c])
    /\ id_column(DataFrame(headers, <<>>)) \notin Range(artifact[c].columns)

\* C7: an iteration that fetches a table with rows for a court whose
\* snapshot lacks the id column, with no write having failed, puts the whole
\* table into updates, and afterwards the working file and the snapshot the
\* next run compares with both hold the fetched table.
C7_SchemaDriftReplaces ==
    [][\A c \in Courts :
          (CleanIteration(c) /\ faults' = 0 /\ Drifted(c)) =>
              /\ updates'[c] = fetched'[c]
              /\ artifact'[c] = to_csv(fetched'[c])
              /\ NextPrevious(c)' = to_csv(fetched'[c])
      ]_vars

\* C8: when the loop has ended with no write having failed, every court
\* with rows in updates has the fetched table in its permanent file.
C8_DurableWritten ==
    (pc = "send" /\ faults = 0) =>
        \A c \in Courts :
            (IsFrame(updates[c]) /\ ~empty(updates[c])) =>
                permanent[c] = to_csv(fetched[c])

\* C9: once a court has been processed in a run with a fetched table that
\* has rows and without a to_csv call raising, its working file holds
\* exactly the fetched table, whatever it held before.
C9_FullReplacement ==
    \A c \in Courts :
        (branch[c] \notin {"pending", "NoData"} /\ ~write_failed[c]) =>
            artifact[c] = to_csv(fetched[c])

\* A loop has ended in which a court with a readable snapshot was diffed and
\* its working file now holds the fetched table.
C9_Witness ==
    /\ pc = "send"
    /\ \E c \in Courts :
        /\ branch[c] \in {"NewEntries", "NoNewEntries"}
        /\ ~write_failed[c]
        /\ artifact[c] = to_csv(fetched[c])

\* C10: no exception leaves the loop over the courts.
C10_NoExceptionLeavesLoop == pc # "crashed"

\* C11: once an iteration in which a to_csv call raised has ended without
\* the exception leaving the loop, the court's entry in updates is no result
\* table: the failure is not turned into a NoChange, NewRows or FirstRun
\* result for the court.
C11_WriteFailureSurfaced ==
    \A c \in Courts :
        (pc # "crashed" /\ write_failed[c]) => ~IsFrame(updates[c])

\* The working file the iteration starts from exists and pd.read_csv raises
\* on it.
Unreadable(c) == HasPrevious /\ read_csv_raises(artifact[c])

C13_EveryRecipientAttempted ==
    (mail.error = "SMTPException" /\ mail.attempted > mail.sent)
        => mail.attempted = Len(EMAIL_RECEIVERS)

\* C14: a run whose send_email finds the sender or the password missing has
\* fetched no court and has changed no snapshot file.
C14_ConfigCheckedBeforeWork ==
    [][(pc = "send" /\ mail'.error = "ValueError") =>
          \A c \in Courts :
              /\ branch[c] = "pending"
              /\ ~art_modified[c]
              /\ ~perm_modified[c]
      ]_vars

\* C15: when send_email is about to be called, updates has an entry for
\* every court; and a run that has ended has called send_email.
C15_NotifierCalledOnce ==
    /\ pc = "send" => \A c \in Courts : updates[c] # Unset
    /\ pc = "crashed" => mail.status # "none"

\* C16: send_email called with no row in any entry of updates returns
\* without opening a connection or sending a message; called with a row in
\* some entry it goes on to send: it ends as sent or failed, and the SMTP
\* connection has been opened unless a setting was missing.
C16_NotifierNoOp ==
    [][pc = "send" =>
          IF \A c \in Courts : RowsOf(updates[c]) = {}
          THEN /\ mail'.status = "skipped"
               /\ ~mail'.smtp
               /\ mail'.attempted = 0
               /\ mail'.sent = 0
          ELSE /\ mail'.status \in {"sent", "failed"}
               /\ mail'.error # "ValueError" => mail'.smtp
      ]_vars

\* A run has ended in which some court's page had rows, none of them new,
\* and send_email returned without sending.
C16_Witness ==
    /\ pc = "idle"
    /\ mail.status = "skipped"
    /\ \E c \in Courts : fetched[c] # NotFetched

\* The entry the step puts into updates for court c is what comparing the
\* fetched table with file f gives: the whole table when f cannot be read or
\* lacks the id column, otherwise the rows whose id is not among f's ids.
ComparedWith(c, f) ==
    IF read_csv_raises(f) \/ id_column(fetched'[c]) \notin Range(f.columns)
    THEN updates'[c] = fetched'[c]
    ELSE updates'[c] = new_entries(fetched'[c], new_ids(fetched'[c], f))

\* C17: the step that starts a run leaves every court that has a permanent
\* file with a working file equal to it, and leaves the other working files
\* alone; when the iteration of a court with a permanent file begins, the
\* working file still equals the permanent file; an iteration that fetches
\* rows for a court with a working file does not take the branch for a
\* missing data file; and, no to_csv call raising, its result is that of
\* comparing the fetched table with the permanent file when there is one,
\* otherwise with the working file.
C17_TierPromotion ==
    [][/\ pc \in {"idle", "crashed"} =>
            \A c \in Courts :
                artifact'[c] = IF exists(permanent[c]) THEN permanent[c]
                               ELSE artifact[c]
       /\ \A c \in Courts :
            (/\ pc = "loop"
             /\ court_name = c
             /\ branch'[c] \notin {"pending", "NoData"})
            => /\ exists(permanent[c]) => artifact[c] = permanent[c]
               /\ exists(artifact[c]) => branch'[c] # "FirstRun"
               /\ (~write_failed'[c] /\ exists(permanent[c]))
                      => ComparedWith(c, permanent[c])
               /\ (~write_failed'[c] /\ ~exists(permanent[c]) /\ exists(artifact[c]))
                      => ComparedWith(c, artifact[c])
      ]_vars

\* The second court is about to be processed: the start of the run replaced
\* its working file by its readable permanent file, and the first court has
\* been processed since.
C17_Witness ==
    /\ pc = "loop"
    /\ court = 2
    /\ branch[URLS[1]] # "pending"
    /\ art_modified[URLS[2]]
    /\ permanent[URLS[2]].kind = "csv"
    /\ artifact[URLS[2]] = permanent[URLS[2]]

\* C18: the ids read back from a file that holds a fetched table, as the
\* next run computes them, are the ids of the fetched table as scraped.
C18_IdentifierRoundTrip ==
    \A c \in Courts :
        fetched[c] # NotFetched =>
            previous_ids(to_csv(fetched[c]), id_column(fetched[c]))
                = current_ids(fetched[c])

\* C19: in an iteration that compares the fetched table with a readable
\* working file that has the id column, with no write having failed, no row
\* whose id is the id cell of some row of the file is put into updates,
\* whatever its other cells are, and the working file afterwards holds the
\* fetched table.
C19_KeyOnlyComparison ==
    [][\A c \in Courts :
          (/\ CleanIteration(c)
           /\ faults' = 0
           /\ HasPrevious
           /\ ~read_csv_raises(artifact[c])
           /\ id_column(fetched'[c]) \in Range(artifact[c].columns))
          => /\ \A i \in 1..Len(fetched'[c].rows) :
                    fetched'[c].rows[i][1]
                        \in Range(Column(artifact[c], id_column(fetched'[c])))
                    => fetched'[c].rows[i] \notin RowsOf(updates'[c])
             /\ artifact'[c] = to_csv(fetched'[c])
      ]_vars

\* What an iteration gives for a court when it is computed from the fetched
\* table and the court's own two files alone.
OwnOutcome(df, art, perm) ==
    IF empty(df)
    THEN [updates |-> None, artifact |-> art, permanent |-> perm]
    ELSE IF ~exists(art) \/ read_csv_raises(art)
    THEN [updates |-> df, artifact |-> to_csv(df), permanent |-> to_csv(df)]
    ELSE IF id_column(df) \notin Range(art.columns)
    THEN [updates |-> df, artifact |-> to_csv(df), permanent |-> perm]
    ELSE [updates |-> new_entries(df, new_ids(df, art)),
          artifact |-> to_csv(df), permanent |-> to_csv(df)]

\* The table the step fetched for the court.
FetchedBy(c) == IF branch'[c] = "NoData" THEN EmptyFrame ELSE fetched'[c]

\* C20: the step that starts a run sets each court's working file from that
\* court's own two files; an iteration for another court leaves a court's
\* files and its entry in updates as they are; an iteration for the court in
\* which no to_csv call raises leaves the entry and both files as computed
\* from the fetched table and the court's own two files, whatever
\* has_previous_data and the other courts' files and entries are; and
\* send_email changes no file.
C20_PerSourceIndependence ==
    [][\A c \in Courts :
          /\ pc \in {"idle", "crashed"} =>
                /\ artifact'[c] = IF exists(permanent[c]) THEN permanent[c]
                                  ELSE artifact[c]
                /\ permanent'[c] = permanent[c]
          /\ (pc = "loop" /\ court_name # c) =>
                /\ artifact'[c] = artifact[c]
                /\ permanent'[c] = permanent[c]
                /\ pc' # "crashed" => updates'[c] = updates[c]
          /\ (pc = "loop" /\ court_name = c /\ ~write_failed'[c]) =>
                LET o == OwnOutcome(FetchedBy(c), artifact[c], permanent[c])
                IN  /\ updates'[c] = o.updates
                    /\ artifact'[c] = o.artifact
                    /\ permanent'[c] = o.permanent
          /\ pc = "send" =>
                /\ artifact'[c] = artifact[c]
                /\ permanent'[c] = permanent[c]
      ]_vars

\* A loop has ended in which one court, with no file of its own, took the
\* branch for a missing data file although has_previous_data was true
\* because of the other court's files, and the other court was compared
\* with its snapshot.
C20_Witness ==
    /\ pc = "send"
    /\ has_previous_data
    /\ \E c, d \in Courts :
        /\ c # d
        /\ branch[c] = "FirstRun"
        /\ ~write_failed[c]
        /\ updates[c] = fetched[c]
        /\ branch[d] \in {"SchemaDrift", "NewEntries", "NoNewEntries"}
        /\ ~write_failed[d]

====
